---- MODULE Spec2Model ----
(***************************************************************************)
(* State machine of the QuickShare transfer client                         *)
(* (src/client/src/App.tsx, component FileTransferApp).                    *)
(*                                                                         *)
(* The React state cells are the variables.  One action is one event       *)
(* handler run to its first await (or to its end), or one continuation of  *)
(* an async handler after its await.  A control that the JSX does not      *)
(* render, or renders disabled, cannot fire its handler: the guard of an   *)
(* action is the render condition of its control conjoined with the early  *)
(* returns of the handler; the return of fetchFileInfo and downloadFile    *)
(* for a blank code is a step of its own that changes nothing.  Handlers   *)
(* invoked from the rendered tree see                                      *)
(* the current state; a continuation after an await sees the state cells   *)
(* its closure captured when the handler was called, which is why an       *)
(* in-flight download carries the fileInfo of its submission.              *)
(*                                                                         *)
(* Strings that the code takes apart (download code, QR text) are          *)
(* sequences of one-character strings; messages are TLA+ strings.          *)
(* JS null is Null.  A JSON value is a record with the fields it has.      *)
(*                                                                         *)
(* View-only cells (dragOver, copied, showQRGenerator, qrCodeDataUrl) and  *)
(* the DOM refs are not state of the adapter and are left out; the writes  *)
(* to them are noted at the actions that make them.  The handlers that     *)
(* touch nothing else (handleCopy, handleShowQRGenerator, generateQRCode)  *)
(* and the failure of the scanner library to load (initScanner's catch)    *)
(* are not modelled.  savedAs is the name the last downloaded blob was     *)
(* handed to the browser under (a.download).                               *)
(***************************************************************************)
EXTENDS Integers, Sequences, FiniteSets, Bags, TLC

VARIABLES activeTab, uploadFile, uploadResult, downloadCode, fileInfo,
          loading, error, success, uploadProgress, showQRScanner, savedAs, requests

vars == <<activeTab, uploadFile, uploadResult, downloadCode, fileInfo,
          loading, error, success, uploadProgress, showQRScanner, savedAs, requests>>

(***************************************************************************)
(* Bounds of the model.                                                    *)
(***************************************************************************)
\* requests that may be in flight together
MaxInFlight == 2
\* largest total of a progress event
MaxTotal == 3

(***************************************************************************)
(* Program constants.                                                      *)
(***************************************************************************)
MAX_FILE_SIZE == 50 * 1024 * 1024
MaxCodeLen == 8

Null == [kind |-> "null"]

(***************************************************************************)
(* Inputs: files the user may pick, the HTTP statuses and bodies the       *)
(* server may answer with.                                                 *)
(***************************************************************************)
FileSizes == {MAX_FILE_SIZE, MAX_FILE_SIZE + 1}
Files == [kind : {"file"}, name : {"a.bin"}, size : FileSizes]

OkStatuses == {200}
ErrStatuses == {413}
Statuses == OkStatuses \cup ErrStatuses

\* detail messages of the upload endpoint and of the info and download ones
UploadDetails == {"file too large"}
FetchDetails == {"File not found or expired"}

\* response texts, by what JSON.parse makes of them: text that is not JSON,
\* the JSON null, and JSON objects with the fields they carry
Unparseable == [kind |-> "invalid"]
EmptyObject == [kind |-> "object"]
DetailObject(d) == [kind |-> "object", detail |-> d]
UploadResponse ==
    [kind |-> "object", code |-> "ABC123", expires_at |-> "t1", file_size |-> 1]
FileInfos ==
    [kind : {"object"}, original_name : {<<"r", "e", "p", "o", "r", "t", ".", "p", "d", "f">>}, file_size : {1},
     content_type : {"application/pdf"}, expires_at : {"t1"},
     time_remaining : {-5}]
\* bodies of error answers; the fetch calls are not given the JSON null
ErrorBodies(details) ==
    {Unparseable, EmptyObject} \cup {DetailObject(d) : d \in details \cup {""}}
UploadErrorBodies == ErrorBodies(UploadDetails) \cup {Null}
FetchErrorBodies == ErrorBodies(FetchDetails)
UploadBodies == UploadErrorBodies \cup {UploadResponse}
InfoBodies == FetchErrorBodies \cup FileInfos

\* an HTTP answer; a fetch that got none rejects instead (NetworkError)
Responses(bodies) == [kind : {"response"}, status : Statuses, body : bodies]
NetworkError == [kind |-> "network error"]

(***************************************************************************)
(* Characters and strings.                                                 *)
(***************************************************************************)
Lower == <<"a", "b", "c", "d", "e", "f", "g", "h", "i", "j", "k", "l", "m",
           "n", "o", "p", "q", "r", "s", "t", "u", "v", "w", "x", "y", "z">>
Upper == <<"A", "B", "C", "D", "E", "F", "G", "H", "I", "J", "K", "L", "M",
           "N", "O", "P", "Q", "R", "S", "T", "U", "V", "W", "X", "Y", "Z">>
Digits == {"0", "1", "2", "3", "4", "5", "6", "7", "8", "9"}
Whitespace == {" "}

Range(f) == {f[i] : i \in DOMAIN f}
LowerLetters == Range(Lower)
UpperLetters == Range(Upper)
UpperOf == [c \in LowerLetters |-> Upper[CHOOSE i \in DOMAIN Lower : Lower[i] = c]]

\* String.prototype.toUpperCase, one character
UpperChar(c) == IF c \in LowerLetters THEN UpperOf[c] ELSE c

\* String.prototype.toUpperCase
ToUpperCase(s) == [i \in DOMAIN s |-> UpperChar(s[i])]

\* the character class [A-Z0-9]
CodeChars == UpperLetters \cup Digits
IsCodeChar(c) == c \in CodeChars

\* s.replace(/[^A-Z0-9]/g, '')
StripNonCode(s) == SelectSeq(s, IsCodeChar)

\* s.slice(0, n)
Slice0(s, n) == SubSeq(s, 1, IF Len(s) < n THEN Len(s) ELSE n)

\* String.prototype.trim
RECURSIVE TrimLeft(_)
TrimLeft(s) ==
    IF s # <<>> /\ Head(s) \in Whitespace THEN TrimLeft(Tail(s)) ELSE s
RECURSIVE TrimRight(_)
TrimRight(s) ==
    IF s # <<>> /\ s[Len(s)] \in Whitespace
    THEN TrimRight(SubSeq(s, 1, Len(s) - 1))
    ELSE s
Trim(s) == TrimRight(TrimLeft(s))

\* the value the code input's onChange stores for the text typed
NormalizeCode(s) == Slice0(StripNonCode(ToUpperCase(s)), MaxCodeLen)

(***************************************************************************)
(* Messages.                                                               *)
(***************************************************************************)
\* `File too large. Max is ${formatFileSize(MAX_FILE_SIZE)}`:
\* formatFileSize(50 * 1024 * 1024) is "50 MB"
FileTooLargeMsg == "File too large. Max is 50 MB"
UploadStatusMsg(status) == "Upload failed with status " \o ToString(status)
\* the message of the SyntaxError of JSON.parse and response.json()
JsonSyntaxMsg == "Unexpected token < in JSON"
\* the message of the TypeError of reading a property of null
NullPropertyMsg == "Cannot read properties of null (reading 'detail')"
\* the message of the TypeError a fetch rejects with
FetchFailedMsg == "Failed to fetch"

\* JSON.parse(text) / response.json(): whether it returns, and what
Parses(body) == body.kind # "invalid"

\* obj.detail is a non-empty string (JS truthiness of errorData.detail)
HasDetail(obj) ==
    obj.kind = "object" /\ "detail" \in DOMAIN obj /\ obj.detail # ""

(***************************************************************************)
(* In-flight requests.  Each carries what its closure captured.            *)
(***************************************************************************)
\* requests is the bag of the requests sent and not yet answered
InFlightCount == BagCardinality(requests)
InFlight(op) == {r \in BagToSet(requests) : r.op = op}
\* the transport takes one more request (the bound of the model)
CanSend == InFlightCount < MaxInFlight
Send(r) == requests' = requests (+) SetToBag({r})
Answered(r) == requests' = requests (-) SetToBag({r})

TypeOK ==
    /\ activeTab \in {"upload", "download"}
    /\ uploadFile \in Files \cup {Null}
    /\ loading \in BOOLEAN
    /\ showQRScanner \in BOOLEAN
    /\ uploadProgress \in 0 .. 100
    /\ IsABag(requests)
    /\ InFlightCount <= MaxInFlight

Init ==
    /\ activeTab = "upload"
    /\ uploadFile = Null
    /\ uploadResult = Null
    /\ downloadCode = <<>>
    /\ fileInfo = Null
    /\ loading = FALSE
    /\ error = ""
    /\ success = ""
    /\ uploadProgress = 0
    /\ showQRScanner = FALSE
    /\ savedAs = Null
    /\ requests = EmptyBag

(***************************************************************************)
(* Tabs.                                                                   *)
(***************************************************************************)
\* a click on the tab that is not the active one
SetActiveTab(tab) ==
    /\ tab # activeTab
    /\ activeTab' = tab
    /\ UNCHANGED <<uploadFile, uploadResult, downloadCode, fileInfo, loading,
                   error, success, uploadProgress, showQRScanner, savedAs,
                   requests>>

(***************************************************************************)
(* File selection.  The drop zone and the file input are rendered on the   *)
(* upload tab while there is no upload result.                             *)
(***************************************************************************)
DropZoneRendered == activeTab = "upload" /\ uploadResult = Null

\* file.size > MAX_FILE_SIZE
Oversize(file) == file.size > MAX_FILE_SIZE

\* handleFileSelect with setUploadFile(file) made before the size check
handleFileSelectUnchecked(file) ==
    /\ success' = ""
    /\ uploadResult' = Null
    /\ error' = IF Oversize(file) THEN FileTooLargeMsg ELSE ""
    /\ uploadFile' = file
    /\ UNCHANGED <<activeTab, downloadCode, fileInfo, loading, uploadProgress,
                   showQRScanner, savedAs, requests>>

\* also setCopied(false), a view-only cell
handleFileSelect(file) ==
    /\ success' = ""
    /\ uploadResult' = Null
    /\ IF Oversize(file)
       THEN /\ error' = FileTooLargeMsg
            /\ UNCHANGED uploadFile
       ELSE /\ error' = ""
            /\ uploadFile' = file
    /\ UNCHANGED <<activeTab, downloadCode, fileInfo, loading, uploadProgress,
                   showQRScanner, savedAs, requests>>

handleFileInputChange(file) ==
    /\ DropZoneRendered
    /\ handleFileSelect(file)

\* also setDragOver(false), a view-only cell
handleDrop(file) ==
    /\ DropZoneRendered
    /\ handleFileSelect(file)

\* the "Upload Another" button: setUploadResult(null)
UploadAnother ==
    /\ activeTab = "upload"
    /\ uploadResult # Null
    /\ uploadResult' = Null
    /\ UNCHANGED <<activeTab, uploadFile, downloadCode, fileInfo, loading,
                   error, success, uploadProgress, showQRScanner, savedAs,
                   requests>>

(***************************************************************************)
(* Upload.                                                                 *)
(***************************************************************************)
\* the Upload button is rendered on the upload tab while there is no upload
\* result and a file is selected, and is disabled while loading
UploadButtonEnabled ==
    /\ activeTab = "upload"
    /\ uploadResult = Null
    /\ uploadFile # Null
    /\ ~loading

\* up to xhr.send(formData)
uploadFileToServer ==
    /\ UploadButtonEnabled
    /\ uploadFile # Null
    /\ CanSend
    /\ loading' = TRUE
    /\ error' = ""
    /\ uploadProgress' = 0
    /\ Send([op |-> "upload", file |-> uploadFile])
    /\ UNCHANGED <<activeTab, uploadFile, uploadResult, downloadCode, fileInfo,
                   success, showQRScanner, savedAs>>

\* Math.round(x) for x = n / d >= 0: floor(x + 1/2)
MathRound(n, d) == (2 * n + d) \div (2 * d)

\* the progress with Math.floor in the place of Math.round
ProgressFloor(loaded, total) == (loaded * 100) \div total

\* Math.round((event.loaded / event.total) * 100)
ProgressOf(loaded, total) == MathRound(loaded * 100, total)

\* xhr.upload.onprogress.  A progress event is length-computable exactly
\* when its total is not 0, and loaded never exceeds a known total.
onprogress(r, loaded, total) ==
    /\ r \in InFlight("upload")
    /\ IF total # 0
       THEN uploadProgress' = ProgressOf(loaded, total)
       ELSE UNCHANGED uploadProgress
    /\ UNCHANGED <<activeTab, uploadFile, uploadResult, downloadCode, fileInfo,
                   loading, error, success, showQRScanner, savedAs, requests>>

\* xhr.onload with the detail of the error body ignored
UploadOutcomeNoDetail(status, body) ==
    IF status >= 200 /\ status < 300
    THEN IF Parses(body)
         THEN [ok |-> TRUE, result |-> body]
         ELSE [ok |-> FALSE, message |-> "Invalid response format"]
    ELSE [ok |-> FALSE, message |-> UploadStatusMsg(status)]

\* what xhr.onload settles uploadPromise with
UploadOutcome(status, body) ==
    IF status >= 200 /\ status < 300
    THEN IF Parses(body)
         THEN [ok |-> TRUE, result |-> body]
         ELSE [ok |-> FALSE, message |-> "Invalid response format"]
    ELSE IF Parses(body) /\ body # Null
         THEN [ok |-> FALSE,
               message |-> IF HasDetail(body) THEN body.detail
                           ELSE "Upload failed"]
         ELSE [ok |-> FALSE, message |-> UploadStatusMsg(status)]

\* the continuation with setLoading(false) at the end of the try block
\* in the place of the finally block
UploadSettledNoFinally(r, outcome) ==
    /\ IF outcome.ok
       THEN /\ uploadResult' = outcome.result
            /\ success' = "Uploaded!"
            /\ uploadFile' = Null
            /\ loading' = FALSE
            /\ UNCHANGED error
       ELSE /\ error' = outcome.message
            /\ UNCHANGED <<uploadResult, success, uploadFile, loading>>
    /\ uploadProgress' = 0
    /\ Answered(r)
    /\ UNCHANGED <<activeTab, downloadCode, fileInfo, showQRScanner, savedAs>>

\* after `await uploadPromise`: the try, catch and finally blocks
UploadSettled(r, outcome) ==
    /\ IF outcome.ok
       THEN /\ uploadResult' = outcome.result
            /\ success' = "Uploaded!"
            /\ uploadFile' = Null
            /\ UNCHANGED error
       ELSE /\ error' = outcome.message
            /\ UNCHANGED <<uploadResult, success, uploadFile>>
    /\ uploadProgress' = 0
    /\ loading' = FALSE
    /\ Answered(r)
    /\ UNCHANGED <<activeTab, downloadCode, fileInfo, showQRScanner, savedAs>>

\* xhr.onload and the continuation it resumes
onload(r, status, body) ==
    /\ r \in InFlight("upload")
    /\ UploadSettled(r, UploadOutcome(status, body))

\* xhr.onerror and the continuation it resumes.  (xhr.ontimeout never
\* fires: xhr.timeout is left at 0.)
onerror(r) ==
    /\ r \in InFlight("upload")
    /\ UploadSettled(r, [ok |-> FALSE, message |-> "Network error during upload"])

(***************************************************************************)
(* Content-Disposition parsing.                                            *)
(***************************************************************************)
Str(chars) == [kind |-> "string", chars |-> chars]

Min(S) == CHOOSE x \in S : \A y \in S : x <= y

\* the literal lit at position i of s
LitAt(s, i, lit) ==
    i + Len(lit) - 1 <= Len(s) /\ SubSeq(s, i, i + Len(lit) - 1) = lit

\* position of the first character of set at or after i; 0 if there is none
FirstOf(s, i, set) ==
    LET at == {j \in i .. Len(s) : s[j] \in set}
    IN IF at = {} THEN 0 ELSE Min(at)

\* the run [^;\n]* from position i
BareRun(s, i) ==
    LET stop == FirstOf(s, i, {";", "\n"})
    IN SubSeq(s, i, IF stop = 0 THEN Len(s) ELSE stop - 1)

FilenameLit == <<"f", "i", "l", "e", "n", "a", "m", "e">>
FilenameStarLit == <<"f", "i", "l", "e", "n", "a", "m", "e", "*", "=", "U", "T", "F", "-", "8", "'", "'">>
DownloadName == <<"d", "o", "w", "n", "l", "o", "a", "d">>

\* /filename[^;=\n]*=/ at position i: the position of its "=", 0 if no match
FilenameEq(s, i) ==
    IF ~LitAt(s, i, FilenameLit) THEN 0
    ELSE LET j == FirstOf(s, i + Len(FilenameLit), {";", "=", "\n"})
         IN IF j # 0 /\ s[j] = "=" THEN j ELSE 0

\* the group ((['"]).*?\2|[^;\n]*) from position i
FilenameGroup(s, i) ==
    LET quoted == i <= Len(s) /\ s[i] \in {"'", "\""}
        close == IF quoted THEN FirstOf(s, i + 1, {s[i]}) ELSE 0
        nl == FirstOf(s, i + 1, {"\n"})
    IN IF close # 0 /\ (nl = 0 \/ nl > close)
       THEN SubSeq(s, i, close)
       ELSE BareRun(s, i)

\* s.replace(/['"]/g, '')
StripQuotes(s) == SelectSeq(s, LAMBDA c : c \notin {"'", "\""})

\* decodeURIComponent.  The escapes of the headers modelled; any other use
\* of "%" in them is malformed and throws URIError.
Escapes ==
    {[esc |-> <<"%", "2", "0">>, chr |-> " "],
     [esc |-> <<"%", "C", "3", "%", "A", "9">>, chr |-> "é"]}
URIErrorMsg == "URI malformed"
RECURSIVE decodeURIComponent(_)
decodeURIComponent(s) ==
    IF s = <<>> THEN [ok |-> TRUE, chars |-> <<>>]
    ELSE IF Head(s) # "%"
    THEN LET rest == decodeURIComponent(Tail(s))
         IN IF rest.ok THEN [ok |-> TRUE, chars |-> <<Head(s)>> \o rest.chars]
            ELSE rest
    ELSE LET hit == {e \in Escapes : LitAt(s, 1, e.esc)}
         IN IF hit = {} THEN [ok |-> FALSE, message |-> URIErrorMsg]
            ELSE LET e == CHOOSE x \in hit : TRUE
                     rest == decodeURIComponent(SubSeq(s, Len(e.esc) + 1, Len(s)))
                 IN IF rest.ok
                    THEN [ok |-> TRUE, chars |-> <<e.chr>> \o rest.chars]
                    ELSE rest

\* decodeURIComponent(x) || 'download'
DecodedOrDownload(s) ==
    LET d == decodeURIComponent(s)
    IN IF d.ok /\ d.chars = <<>> THEN [ok |-> TRUE, chars |-> DownloadName] ELSE d

\* extractFilename: [ok |-> TRUE, chars |-> name], or the URIError thrown
extractFilename(contentDisposition) ==
    IF contentDisposition = Null \/ contentDisposition.chars = <<>>
    THEN [ok |-> TRUE, chars |-> DownloadName]
    ELSE LET s == contentDisposition.chars
             at == {i \in 1 .. Len(s) : FilenameEq(s, i) # 0}
             group == IF at = {} THEN <<>>
                      ELSE FilenameGroup(s, FilenameEq(s, Min(at)) + 1)
             starAt == {i \in 1 .. Len(s) : LitAt(s, i, FilenameStarLit)}
             starGroup == IF starAt = {} THEN <<>>
                          ELSE BareRun(s, Min(starAt) + Len(FilenameStarLit))
         IN IF group # <<>> THEN DecodedOrDownload(StripQuotes(group))
            ELSE IF starGroup # <<>> THEN DecodedOrDownload(starGroup)
            ELSE [ok |-> TRUE, chars |-> DownloadName]

\* Content-Disposition headers: none;
\* attachment; filename*=UTF-8''caf%C3%A9.txt; attachment; filename=5%.txt
ContentDispositions ==
    {Null,
     Str(<<"a", "t", "t", "a", "c", "h", "m", "e", "n", "t", ";", " ", "f", "i", "l", "e", "n", "a", "m", "e", "*", "=", "U", "T", "F", "-", "8", "'", "'", "c", "a", "f", "%", "C", "3", "%", "A", "9", ".", "t", "x", "t">>),
     Str(<<"a", "t", "t", "a", "c", "h", "m", "e", "n", "t", ";", " ", "f", "i", "l", "e", "n", "a", "m", "e", "=", "5", "%", ".", "t", "x", "t">>)}

\* extractFilename on each of them
ExtractedName == [h \in ContentDispositions |-> extractFilename(h)]

(***************************************************************************)
(* Info lookup.                                                            *)
(***************************************************************************)
\* response.ok
Ok(resp) == resp.status >= 200 /\ resp.status < 300

\* the Error thrown for a response that is not ok:
\* new Error((await response.json()).detail || fallback)
NotOkMessage(body, fallback) ==
    IF ~Parses(body) THEN JsonSyntaxMsg
    ELSE IF body = Null THEN NullPropertyMsg
    ELSE IF HasDetail(body) THEN body.detail
    ELSE fallback

\* fetchFileInfo up to the fetch; for a blank code it returns at once
fetchFileInfo(code) ==
    IF Trim(code) = <<>>
    THEN UNCHANGED <<loading, error, requests>>
    ELSE /\ CanSend
         /\ loading' = TRUE
         /\ error' = ""
         /\ Send([op |-> "info", code |-> ToUpperCase(code)])

\* the Check File button, disabled while the code is empty
CheckFile ==
    /\ activeTab = "download"
    /\ downloadCode # <<>>
    /\ fetchFileInfo(downloadCode)
    /\ UNCHANGED <<activeTab, uploadFile, uploadResult, downloadCode, fileInfo,
                   success, uploadProgress, showQRScanner, savedAs>>

\* what the try block of fetchFileInfo ends with
InfoOutcome(resp) ==
    IF resp = NetworkError THEN [ok |-> FALSE, message |-> FetchFailedMsg]
    ELSE IF ~Ok(resp)
    THEN [ok |-> FALSE, message |-> NotOkMessage(resp.body, "File not found")]
    ELSE IF ~Parses(resp.body) THEN [ok |-> FALSE, message |-> JsonSyntaxMsg]
    ELSE [ok |-> TRUE, info |-> resp.body]

\* the continuation with a check that throws for a FileInfo whose
\* time_remaining is not positive
InfoSettledRejectExpired(r, resp) ==
    /\ r \in InFlight("info")
    /\ LET outcome == InfoOutcome(resp)
       IN IF outcome.ok /\ outcome.info.time_remaining > 0
          THEN /\ fileInfo' = outcome.info
               /\ UNCHANGED error
          ELSE /\ error' = IF outcome.ok THEN "Expired" ELSE outcome.message
               /\ fileInfo' = Null
    /\ loading' = FALSE
    /\ Answered(r)
    /\ UNCHANGED <<activeTab, uploadFile, uploadResult, downloadCode, success,
                   uploadProgress, showQRScanner, savedAs>>

\* fetchFileInfo after the fetch: the try, catch and finally blocks
InfoSettled(r, resp) ==
    /\ r \in InFlight("info")
    /\ LET outcome == InfoOutcome(resp)
       IN IF outcome.ok
          THEN /\ fileInfo' = outcome.info
               /\ UNCHANGED error
          ELSE /\ error' = outcome.message
               /\ fileInfo' = Null
    /\ loading' = FALSE
    /\ Answered(r)
    /\ UNCHANGED <<activeTab, uploadFile, uploadResult, downloadCode, success,
                   uploadProgress, showQRScanner, savedAs>>

(***************************************************************************)
(* Download.                                                               *)
(***************************************************************************)
\* the code input's onChange
onChange(text) ==
    /\ activeTab = "download"
    /\ downloadCode' = NormalizeCode(text)
    /\ UNCHANGED <<activeTab, uploadFile, uploadResult, fileInfo, loading,
                   error, success, uploadProgress, showQRScanner, savedAs,
                   requests>>

\* the Download button, disabled while the code is empty or while loading
DownloadButtonEnabled ==
    /\ activeTab = "download"
    /\ downloadCode # <<>>
    /\ ~loading

\* downloadFile up to the fetch.  The continuation keeps the fileInfo of the
\* render the handler was created in; the code sent in the body
\* (downloadCode.toUpperCase()) is not read again by the client.
downloadFile ==
    /\ DownloadButtonEnabled
    /\ IF Trim(downloadCode) = <<>>
       THEN UNCHANGED <<loading, error, requests>>
       ELSE /\ CanSend
            /\ loading' = TRUE
            /\ error' = ""
            /\ Send([op |-> "download", fileInfo |-> fileInfo])
    /\ UNCHANGED <<activeTab, uploadFile, uploadResult, downloadCode, fileInfo,
                   success, uploadProgress, showQRScanner, savedAs>>

\* fileInfo?.original_name is truthy
HasOriginalName(info) ==
    info.kind = "object" /\ "original_name" \in DOMAIN info
        /\ info.original_name # <<>>

\* the name the blob is saved under, given the extracted name
ResolvedName(extracted, info) ==
    IF extracted = DownloadName /\ HasOriginalName(info)
    THEN info.original_name
    ELSE extracted

\* what the try block of downloadFile ends with
DownloadOutcome(resp, info) ==
    IF resp = NetworkError THEN [ok |-> FALSE, message |-> FetchFailedMsg]
    ELSE IF ~Ok(resp)
    THEN [ok |-> FALSE, message |-> NotOkMessage(resp.body, "Download failed")]
    ELSE LET name == ExtractedName[resp.contentDisposition]
         IN IF ~name.ok THEN [ok |-> FALSE, message |-> name.message]
            ELSE [ok |-> TRUE, filename |-> ResolvedName(name.chars, info)]

\* the continuation without setFileInfo(null) in the try block
DownloadSettledKeepInfo(r, resp) ==
    /\ r \in InFlight("download")
    /\ LET outcome == DownloadOutcome(resp, r.fileInfo)
       IN IF outcome.ok
          THEN /\ savedAs' = Str(outcome.filename)
               /\ success' = "Downloaded!"
               /\ downloadCode' = <<>>
               /\ UNCHANGED <<error, fileInfo>>
          ELSE /\ error' = outcome.message
               /\ UNCHANGED <<savedAs, success, downloadCode, fileInfo>>
    /\ loading' = FALSE
    /\ Answered(r)
    /\ UNCHANGED <<activeTab, uploadFile, uploadResult, uploadProgress,
                   showQRScanner>>

\* downloadFile after the fetch: the try, catch and finally blocks
DownloadSettled(r, resp) ==
    /\ r \in InFlight("download")
    /\ LET outcome == DownloadOutcome(resp, r.fileInfo)
       IN IF outcome.ok
          THEN /\ savedAs' = Str(outcome.filename)
               /\ success' = "Downloaded!"
               /\ downloadCode' = <<>>
               /\ fileInfo' = Null
               /\ UNCHANGED error
          ELSE /\ error' = outcome.message
               /\ UNCHANGED <<savedAs, success, downloadCode, fileInfo>>
    /\ loading' = FALSE
    /\ Answered(r)
    /\ UNCHANGED <<activeTab, uploadFile, uploadResult, uploadProgress,
                   showQRScanner>>

(***************************************************************************)
(* QR code scanning.                                                       *)
(***************************************************************************)
DownloadPath == <<"/", "d", "o", "w", "n", "l", "o", "a", "d", "/">>

UpperDownloadPath == ToUpperCase(DownloadPath)

\* start of the first match of /\/download\/([A-Z0-9]+)/i in s; 0 if none
UrlMatchAt(s) ==
    LET at == {i \in 1 .. Len(s) :
                 /\ i + Len(DownloadPath) <= Len(s)
                 /\ ToUpperCase(SubSeq(s, i, i + Len(DownloadPath) - 1))
                      = UpperDownloadPath
                 /\ IsCodeChar(UpperChar(s[i + Len(DownloadPath)]))}
    IN IF at = {} THEN 0 ELSE Min(at)

\* the run [A-Z0-9]+ (case-insensitive) from position i
CodeRun(s, i) ==
    LET stop == {j \in i .. Len(s) : ~IsCodeChar(UpperChar(s[j]))}
    IN SubSeq(s, i, IF stop = {} THEN Len(s) ELSE Min(stop) - 1)

\* urlMatch ? urlMatch[1] : result
ScannedCode(result) ==
    LET at == UrlMatchAt(result)
    IN IF at # 0 THEN CodeRun(result, at + Len(DownloadPath)) ELSE result

\* the scan button of the download tab: setShowQRScanner(true)
OpenQRScanner ==
    /\ activeTab = "download"
    /\ showQRScanner' = TRUE
    /\ UNCHANGED <<activeTab, uploadFile, uploadResult, downloadCode, fileInfo,
                   loading, error, success, uploadProgress, savedAs,
                   requests>>

\* the Close button of the scanner
CloseQRScanner ==
    /\ showQRScanner
    /\ showQRScanner' = FALSE
    /\ UNCHANGED <<activeTab, uploadFile, uploadResult, downloadCode, fileInfo,
                   loading, error, success, uploadProgress, savedAs,
                   requests>>

\* the scanner's success callback, for a non-empty result
handleQRScan(result) ==
    /\ showQRScanner
    /\ result # <<>>
    /\ LET code == ScannedCode(result)
       IN /\ downloadCode' = ToUpperCase(code)
          /\ fetchFileInfo(code)
    /\ showQRScanner' = FALSE
    /\ UNCHANGED <<activeTab, uploadFile, uploadResult, fileInfo, success,
                   uploadProgress, savedAs>>

(***************************************************************************)
(* Inputs of the events.                                                   *)
(***************************************************************************)
\* texts typed into the code input: "", "ab-3_9"
TypedTexts == {<<>>, <<"a", "b", "-", "3", "_", "9">>}

\* QR payloads: "x/download/ab39", "a-b", " "
QRResults == {<<"x", "/", "d", "o", "w", "n", "l", "o", "a", "d", "/", "a", "b", "3", "9">>, <<"a", "-", "b">>, <<" ">>}

\* progress events: total 0 stands for one that is not length-computable
ProgressEvents ==
    {<<loaded, total>> \in (0 .. MaxTotal) \X {0, MaxTotal} : loaded <= total}

UploadAnswers ==
    {a \in Responses(UploadBodies) :
        IF Ok(a) THEN a.body \in {Unparseable, UploadResponse}
        ELSE a.body \in UploadErrorBodies}

InfoAnswers ==
    {NetworkError} \cup
    {a \in Responses(InfoBodies) :
        IF Ok(a) THEN a.body \in {Unparseable} \cup FileInfos
        ELSE a.body \in FetchErrorBodies}

DownloadAnswers ==
    {NetworkError} \cup
    {[kind |-> "response", status |-> st, body |-> b] :
        st \in ErrStatuses, b \in FetchErrorBodies} \cup
    {[kind |-> "response", status |-> st, body |-> Unparseable,
      contentDisposition |-> h] : st \in OkStatuses, h \in ContentDispositions}

(***************************************************************************)
(* The state machine.                                                      *)
(***************************************************************************)
Next ==
    \/ \E tab \in {"upload", "download"} : SetActiveTab(tab)
    \/ \E file \in Files : handleFileInputChange(file)
    \/ \E file \in Files : handleDrop(file)
    \/ UploadAnother
    \/ uploadFileToServer
    \/ \E r \in BagToSet(requests), e \in ProgressEvents : onprogress(r, e[1], e[2])
    \/ \E r \in BagToSet(requests), a \in UploadAnswers : onload(r, a.status, a.body)
    \/ \E r \in BagToSet(requests) : onerror(r)
    \/ \E text \in TypedTexts : onChange(text)
    \/ CheckFile
    \/ \E r \in BagToSet(requests), a \in InfoAnswers : InfoSettled(r, a)
    \/ downloadFile
    \/ \E r \in BagToSet(requests), a \in DownloadAnswers : DownloadSettled(r, a)
    \/ OpenQRScanner
    \/ CloseQRScanner
    \/ \E result \in QRResults : handleQRScan(result)

Spec == Init /\ [][Next]_vars

(***************************************************************************)
(* The download tab's lookup on its own, with FileInfo answers of negative,*)
(* zero and positive time_remaining.                                       *)
(***************************************************************************)
TimesRemaining == {-5, 0, 90}

LookupFileInfos ==
    {[i EXCEPT !.time_remaining = t] : i \in FileInfos, t \in TimesRemaining}

LookupAnswers ==
    {NetworkError} \cup
    {a \in Responses(FetchErrorBodies \cup LookupFileInfos) :
        IF Ok(a) THEN a.body \in {Unparseable} \cup LookupFileInfos
        ELSE a.body \in FetchErrorBodies}

NextLookup ==
    \/ \E tab \in {"upload", "download"} : SetActiveTab(tab)
    \/ \E text \in TypedTexts : onChange(text)
    \/ CheckFile
    \/ \E r \in BagToSet(requests), a \in LookupAnswers : InfoSettled(r, a)
    \/ OpenQRScanner
    \/ CloseQRScanner
    \/ \E result \in QRResults : handleQRScan(result)

SpecLookup == Init /\ [][NextLookup]_vars

(***************************************************************************)
(* Steps, as seen from the state before and the state after.               *)
(***************************************************************************)
\* the requests this step sent, and the ones it saw answered
SentNow ==
    {r \in BagToSet(requests') : CopiesIn(r, requests') > CopiesIn(r, requests)}
AnsweredNow ==
    {r \in BagToSet(requests) : CopiesIn(r, requests') < CopiesIn(r, requests)}

\* some answer settles request r
Settle(r) ==
    \/ \E a \in UploadAnswers : onload(r, a.status, a.body)
    \/ onerror(r)
    \/ \E a \in InfoAnswers : InfoSettled(r, a)
    \/ \E a \in DownloadAnswers : DownloadSettled(r, a)

\* a file selection by either control
FileSelected(file) == handleFileInputChange(file) \/ handleDrop(file)

(***************************************************************************)
(* C1.  At most one request is in flight at any time: while an upload, an  *)
(* info lookup or a download is unanswered, no further submission sends a  *)
(* second request.                                                         *)
(* Fails: fetchFileInfo does not read loading and the Check File button    *)
(* and the QR scan are not disabled by it.                                 *)
(***************************************************************************)
C1_AtMostOneInFlight == InFlightCount <= 1

(***************************************************************************)
(* C2.  The busy flag is true when a request is sent; every request in     *)
(* flight can be settled by an answer (success, HTTP error, transport      *)
(* error, malformed response), and the step that settles a request leaves  *)
(* the busy flag false.  That the answer arrives is the transport's part.  *)
(***************************************************************************)
C2_BusySetAndCleared ==
    /\ [](\A r \in BagToSet(requests) : ENABLED Settle(r))
    /\ [][/\ SentNow # {} => loading'
          /\ AnsweredNow # {} => ~loading']_vars

\* an upload has been answered with an error: the busy flag and the
\* progress are reset and nothing is in flight
C2_Witness ==
    /\ error = "Network error during upload"
    /\ ~loading
    /\ requests = EmptyBag
    /\ uploadFile # Null

(***************************************************************************)
(* C3.  A new request clears the previous banner before starting: in the   *)
(* step that sends a request, the error message and the success message    *)
(* both end empty.                                                         *)
(* Fails: the three submissions call setError('') only.                    *)
(***************************************************************************)
C3_BannerClearedAtDispatch ==
    [][SentNow # {} => error' = "" /\ success' = ""]_vars

(***************************************************************************)
(* C4.  The banner is a single message: the error message and the success  *)
(* message are never both non-empty.                                       *)
(* Fails: an error outcome sets error and leaves success as it was.        *)
(***************************************************************************)
C4_SingleBanner == ~(error # "" /\ success # "")

(***************************************************************************)
(* C5.  File selection.  A file of size <= MAX_FILE_SIZE becomes the       *)
(* selected file and the error and success banners are cleared.  A larger  *)
(* file is rejected; as claimed, nothing but the error banner changes then *)
(* (selected file, upload result, success banner, progress, busy flag).    *)
(* Fails: the success banner is cleared before the size is looked at.      *)
(***************************************************************************)
C5_RejectionChangesErrorOnly ==
    [][\A file \in Files : FileSelected(file) =>
         IF file.size <= MAX_FILE_SIZE
         THEN uploadFile' = file /\ error' = "" /\ success' = ""
         ELSE /\ uploadFile' = uploadFile
              /\ uploadResult' = uploadResult
              /\ success' = success
              /\ uploadProgress' = uploadProgress
              /\ loading' = loading]_vars

(***************************************************************************)
(* C5, amended.  A file of size <= MAX_FILE_SIZE becomes the selected file *)
(* and the error and success banners are cleared.  A larger file is        *)
(* rejected: the error banner is set to the too-large message and the      *)
(* success banner is cleared; selected file, upload result, progress, busy *)
(* flag and the requests in flight are unchanged.                          *)
(***************************************************************************)
C5_RejectionChangesBannerOnly ==
    [][\A file \in Files : FileSelected(file) =>
         IF file.size <= MAX_FILE_SIZE
         THEN uploadFile' = file /\ error' = "" /\ success' = ""
         ELSE /\ error' = FileTooLargeMsg
              /\ success' = ""
              /\ uploadFile' = uploadFile
              /\ uploadResult' = uploadResult
              /\ uploadProgress' = uploadProgress
              /\ loading' = loading
              /\ requests' = requests]_vars

\* a file was rejected while another stays selected and is being uploaded
C5_Witness ==
    /\ error = FileTooLargeMsg
    /\ success = ""
    /\ uploadFile # Null
    /\ loading
    /\ uploadProgress > 0

(***************************************************************************)
(* C6.  No upload is sent for a file larger than MAX_FILE_SIZE: the        *)
(* selected file, if any, and the file of every upload in flight have size *)
(* <= MAX_FILE_SIZE, and selecting a larger file sends no request.         *)
(***************************************************************************)
C6_NoOversizeUpload ==
    /\ [](/\ uploadFile # Null => uploadFile.size <= MAX_FILE_SIZE
          /\ \A r \in InFlight("upload") : r.file.size <= MAX_FILE_SIZE)
    /\ [][\A file \in Files :
            FileSelected(file) /\ file.size > MAX_FILE_SIZE => SentNow = {}]_vars

\* an oversize file was offered, and the file at the limit is on its way
C6_Witness ==
    /\ error = FileTooLargeMsg
    /\ \E r \in InFlight("upload") : r.file.size = MAX_FILE_SIZE

(***************************************************************************)
(* C7.  Upload progress is an integer in [0, 100] and, after a progress    *)
(* event with bytesSent <= total, equals floor(bytesSent / total * 100).   *)
(* Fails: the code rounds to the nearest integer.                          *)
(***************************************************************************)
C7_ProgressIsFloor ==
    /\ [](uploadProgress \in 0 .. 100)
    /\ [][\A r \in InFlight("upload"), e \in ProgressEvents :
            onprogress(r, e[1], e[2]) /\ e[2] # 0 =>
               100 * e[1] - e[2] < uploadProgress' * e[2]
                 /\ uploadProgress' * e[2] <= 100 * e[1]]_vars

(***************************************************************************)
(* C7, amended.  Upload progress is an integer in [0, 100] and, after a    *)
(* progress event with bytesSent <= total, is bytesSent / total * 100      *)
(* rounded to the nearest integer, halves upwards (Math.round).            *)
(***************************************************************************)
C7_ProgressIsRounded ==
    /\ [](uploadProgress \in 0 .. 100)
    /\ [][\A r \in InFlight("upload"), e \in ProgressEvents :
            onprogress(r, e[1], e[2]) /\ e[2] # 0 =>
               2 * uploadProgress' * e[2] <= 200 * e[1] + e[2]
                 /\ 200 * e[1] + e[2] < 2 * (uploadProgress' + 1) * e[2]]_vars

\* a progress event whose ratio is not a whole percentage has been handled
C7_Witness ==
    /\ InFlight("upload") # {}
    /\ uploadProgress \notin {0, 100}
    /\ uploadProgress * MaxTotal \notin {100 * k : k \in 0 .. MaxTotal}

(***************************************************************************)
(* Answers to an upload, by the cases the claims tell apart.               *)
(***************************************************************************)
\* a non-2xx answer whose JSON body carries a detail message
FailedWithDetail(a) ==
    /\ a.status \in ErrStatuses
    /\ a.body.kind = "object"
    /\ "detail" \in DOMAIN a.body
    /\ a.body.detail \in UploadDetails

\* a non-2xx answer with no detail message
FailedWithoutDetail(a) == a.status \in ErrStatuses /\ ~FailedWithDetail(a)

\* a 2xx answer with a parseable JSON body
Succeeded(a) == a.status \in OkStatuses /\ a.body.kind # "invalid"

(***************************************************************************)
(* C8.  A failed upload whose non-2xx answer carries a detail message ends *)
(* with the error banner equal to that detail, progress 0 and the busy     *)
(* flag cleared; a non-2xx answer with no detail message ends, as claimed, *)
(* with a generic message that includes the status code, progress 0 and    *)
(* the busy flag cleared.                                                  *)
(* Fails: a JSON object without a detail gives "Upload failed", which      *)
(* names no status code.                                                   *)
(***************************************************************************)
C8_NoDetailNamesStatus ==
    [][\A r \in InFlight("upload"), a \in UploadAnswers :
         onload(r, a.status, a.body) =>
            /\ FailedWithDetail(a) => error' = a.body.detail
            /\ FailedWithoutDetail(a) => error' = UploadStatusMsg(a.status)
            /\ a.status \in ErrStatuses => uploadProgress' = 0 /\ ~loading']_vars

(***************************************************************************)
(* C8, amended.  A failed upload whose non-2xx answer carries a detail     *)
(* message ends with the error banner equal to that detail; a non-2xx      *)
(* answer whose body is not JSON, or is the JSON null, ends with the       *)
(* generic message that includes the status code; a non-2xx answer whose   *)
(* JSON body has no detail, or an empty one, ends with the generic message *)
(* "Upload failed", which names no status code.  In all three cases the    *)
(* progress is 0 and the busy flag is cleared.                             *)
(***************************************************************************)
C8_FailedUploadBanner ==
    [][\A r \in InFlight("upload"), a \in UploadAnswers :
         onload(r, a.status, a.body) =>
            /\ FailedWithDetail(a) => error' = a.body.detail
            /\ FailedWithoutDetail(a) /\ a.body.kind \in {"invalid", "null"}
                 => error' = UploadStatusMsg(a.status)
            /\ FailedWithoutDetail(a) /\ a.body.kind = "object"
                 => error' = "Upload failed"
            /\ a.status \in ErrStatuses => uploadProgress' = 0 /\ ~loading']_vars

\* an upload has failed with the server's detail message: the file stays
\* selected, nothing is in flight
C8_Witness ==
    /\ error \in UploadDetails
    /\ uploadProgress = 0
    /\ ~loading
    /\ uploadFile # Null
    /\ requests = EmptyBag

(***************************************************************************)
(* C9.  A successful upload (2xx, parseable JSON body) ends with the       *)
(* upload result equal to the parsed answer, no selected file, progress 0, *)
(* the success banner shown, the error banner empty and the busy flag      *)
(* cleared.                                                                *)
(* Fails: an error set while the upload was in flight is still there.      *)
(***************************************************************************)
C9_SuccessfulUploadEnds ==
    [][\A r \in InFlight("upload"), a \in UploadAnswers :
         onload(r, a.status, a.body) /\ Succeeded(a) =>
            /\ uploadResult' = a.body
            /\ uploadFile' = Null
            /\ uploadProgress' = 0
            /\ success' = "Uploaded!"
            /\ error' = ""
            /\ ~loading']_vars

(***************************************************************************)
(* C10.  FileInfo is cleared whenever the download code changes or a       *)
(* download is attempted: a step that changes the code (typing, QR scan)   *)
(* or sends a download leaves no FileInfo stored.                          *)
(* Fails: onChange and handleQRScan write the code only, and downloadFile  *)
(* clears FileInfo on success only.                                        *)
(***************************************************************************)
C10_FileInfoInvalidated ==
    [][(downloadCode' # downloadCode \/ \E r \in SentNow : r.op = "download")
         => fileInfo' = Null]_vars

\* an answer to a fetch that is no success: no answer at all, or a status
\* outside 2xx
NotSuccess(a) == a = NetworkError \/ ~Ok(a)

\* an answer whose JSON body carries a detail message
CarriesDetail(a) ==
    a # NetworkError /\ Parses(a.body) /\ a.body # Null /\ HasDetail(a.body)

(***************************************************************************)
(* C11.  A failed download (a non-2xx answer, or none) leaves the stored   *)
(* FileInfo and the download code as they are, sets the error banner to    *)
(* the answer's detail, or to the generic message "Download failed" when   *)
(* there is none, and clears the busy flag.                                *)
(* Fails: for a non-2xx answer whose body is not JSON the banner is the    *)
(* message of the parser's SyntaxError, and for a fetch that got no answer *)
(* it is the message of the TypeError fetch rejects with.                  *)
(***************************************************************************)
C11_FailedDownloadFrame ==
    [][\A r \in InFlight("download"), a \in DownloadAnswers :
         DownloadSettled(r, a) /\ NotSuccess(a) =>
            /\ fileInfo' = fileInfo
            /\ downloadCode' = downloadCode
            /\ error' = IF CarriesDetail(a) THEN a.body.detail
                        ELSE "Download failed"
            /\ ~loading']_vars

\* the download has saved the blob under a name
Downloaded(a, info) == ~NotSuccess(a) /\ DownloadOutcome(a, info).ok

(***************************************************************************)
(* C12.  A successful download (the blob was saved) ends with the download *)
(* code empty, no FileInfo stored and the success banner "Downloaded!",    *)
(* whichever way the filename was resolved: from the header, the literal   *)
(* download, or FileInfo's original_name.                                  *)
(***************************************************************************)
C12_SuccessfulDownloadEnds ==
    [][\A r \in InFlight("download"), a \in DownloadAnswers :
         DownloadSettled(r, a) /\ Downloaded(a, r.fileInfo) =>
            /\ downloadCode' = <<>>
            /\ fileInfo' = Null
            /\ success' = "Downloaded!"
            /\ savedAs' = Str(DownloadOutcome(a, r.fileInfo).filename)]_vars

\* a download was saved under the name of the FileInfo fetched before it
C12_Witness ==
    /\ savedAs \in {Str(i.original_name) : i \in FileInfos}
    /\ success = "Downloaded!"
    /\ downloadCode = <<>>
    /\ fileInfo = Null
    /\ ~loading

\* where the extended form filename*=UTF-8'' starts in header h
ExtendedAt(h) == {i \in 1 .. Len(h.chars) : LitAt(h.chars, i, FilenameStarLit)}

\* header h carries the extended form and no other filename parameter
OnlyExtendedForm(h) ==
    /\ h # Null
    /\ ExtendedAt(h) # {}
    /\ {i \in 1 .. Len(h.chars) : LitAt(h.chars, i, FilenameLit)} = ExtendedAt(h)

\* the <value> of filename*=UTF-8''<value>
ExtendedValue(h) ==
    BareRun(h.chars, Min(ExtendedAt(h)) + Len(FilenameStarLit))

(***************************************************************************)
(* C13.  For a Content-Disposition header that carries only the extended   *)
(* form filename*=UTF-8''<value>, the extracted name, under which the blob *)
(* is saved, is the percent-decoded <value> alone: caf%C3%A9.txt gives     *)
(* café.txt with no charset prefix.                                        *)
(* Fails: /filename[^;=\n]*=/ matches "filename*=" first, so the group is  *)
(* UTF-8''<value> and only its quotes are removed.                         *)
(***************************************************************************)
C13_ExtendedFormDecoded ==
    [][\A r \in InFlight("download"), a \in DownloadAnswers :
         (/\ DownloadSettled(r, a)
          /\ ~NotSuccess(a)
          /\ OnlyExtendedForm(a.contentDisposition)
          /\ decodeURIComponent(ExtendedValue(a.contentDisposition)).ok)
         => /\ extractFilename(a.contentDisposition)
                 = decodeURIComponent(ExtendedValue(a.contentDisposition))
            /\ savedAs'.chars
                 = decodeURIComponent(ExtendedValue(a.contentDisposition)).chars]_vars

(***************************************************************************)
(* C14.  Filename fallback of a successful download: when extraction from  *)
(* the header yields the literal download, the blob is saved as download   *)
(* if no FileInfo is stored at that time and under FileInfo's              *)
(* original_name if one is stored; a name taken from the header is never   *)
(* replaced by FileInfo's.                                                 *)
(* Fails: the continuation reads the fileInfo of the render in which       *)
(* Download was clicked; a lookup answered while the download is in        *)
(* flight (C1) stores or clears FileInfo without the continuation seeing   *)
(* it.                                                                     *)
(***************************************************************************)
C14_FilenameFallback ==
    [][\A r \in InFlight("download"), a \in DownloadAnswers :
         DownloadSettled(r, a) /\ Downloaded(a, r.fileInfo) =>
            LET name == ExtractedName[a.contentDisposition].chars
            IN savedAs'.chars =
                 IF name # DownloadName THEN name
                 ELSE IF HasOriginalName(fileInfo) THEN fileInfo.original_name
                 ELSE DownloadName]_vars

(***************************************************************************)
(* C15.  The download code held in state is always normalized: whatever    *)
(* was typed or scanned, it consists of characters of [A-Z0-9] only and    *)
(* is at most 8 long; and typing ab-3_9 stores AB39.                       *)
(* Fails: handleQRScan stores the scanned text uppercased, neither         *)
(* filtered nor cut.                                                       *)
(***************************************************************************)
C15_CodeNormalized ==
    /\ [](/\ \A i \in 1 .. Len(downloadCode) : IsCodeChar(downloadCode[i])
          /\ Len(downloadCode) <= MaxCodeLen)
    /\ [][onChange(<<"a", "b", "-", "3", "_", "9">>)
            => downloadCode' = <<"A", "B", "3", "9">>]_vars

\* a submission of the code held in state by one of the two buttons
CheckFileClicked == activeTab = "download" /\ downloadCode # <<>>
DownloadClicked == DownloadButtonEnabled

(***************************************************************************)
(* C16.  Submitting an info lookup or a download with an empty or          *)
(* whitespace-only code sends no request and shows an error banner at      *)
(* once: where a blank code can be submitted by a button, the submission   *)
(* can end with no request sent and an error shown, and a QR scan of a     *)
(* blank text ends so.                                                     *)
(* Fails: fetchFileInfo and downloadFile return without setting error.     *)
(***************************************************************************)
C16_BlankCodeRejected ==
    /\ [](CheckFileClicked /\ Trim(downloadCode) = <<>>
            => ENABLED (CheckFile /\ requests' = requests /\ error' # ""))
    /\ [](DownloadClicked /\ Trim(downloadCode) = <<>>
            => ENABLED (downloadFile /\ requests' = requests /\ error' # ""))
    /\ [][\A result \in QRResults :
            handleQRScan(result) /\ Trim(ScannedCode(result)) = <<>>
               => requests' = requests /\ error' # ""]_vars

(***************************************************************************)
(* C17.  A failed info lookup (a non-2xx answer, with a JSON body or not,  *)
(* or no answer) ends with no FileInfo stored, the busy flag cleared, and  *)
(* the error banner equal to the answer's detail when it has one and to    *)
(* the fixed fallback message "File not found" otherwise.                  *)
(* Fails: for a body that is not JSON the banner is the message of the     *)
(* parser's SyntaxError, and for no answer that of fetch's TypeError.      *)
(***************************************************************************)
C17_FailedLookup ==
    [][\A r \in InFlight("info"), a \in InfoAnswers :
         InfoSettled(r, a) /\ NotSuccess(a) =>
            /\ fileInfo' = Null
            /\ ~loading'
            /\ error' = IF CarriesDetail(a) THEN a.body.detail
                        ELSE "File not found"]_vars

(***************************************************************************)
(* C19.  The busy flag reflects the requests in flight: loading is true    *)
(* whenever an upload, a lookup or a download has been sent and is not     *)
(* yet answered.                                                           *)
(* Fails: each continuation ends with setLoading(false), whatever else is  *)
(* in flight (C1).                                                         *)
(***************************************************************************)
C19_BusyWhileInFlight == InFlightCount > 0 => loading

(***************************************************************************)
(* C20.  The stored FileInfo describes the current download code: it is    *)
(* stored as the answer to a lookup for the code then in the field, and    *)
(* the code does not change while it stays stored.                         *)
(* Fails: the continuation of fetchFileInfo stores the answer without      *)
(* comparing codes, and a change of the code leaves FileInfo stored (C10). *)
(***************************************************************************)
C20_FileInfoForCurrentCode ==
    /\ [][\A r \in InFlight("info"), a \in InfoAnswers :
            InfoSettled(r, a) /\ fileInfo' # Null => r.code = downloadCode']_vars
    /\ [][fileInfo # Null /\ fileInfo' # Null /\ AnsweredNow = {}
            => downloadCode' = downloadCode]_vars

(***************************************************************************)
(* C18.  A successful info lookup stores the server's FileInfo unmodified  *)
(* for every time_remaining, zero and negative ones included: the stored   *)
(* time_remaining is the one the server reported, and the lookup sets no   *)
(* error banner.                                                           *)
(***************************************************************************)
C18_FileInfoStoredUnmodified ==
    [][\A r \in InFlight("info"), a \in LookupAnswers :
         InfoSettled(r, a) /\ ~NotSuccess(a) /\ Parses(a.body) =>
            /\ fileInfo' = a.body
            /\ fileInfo'.time_remaining = a.body.time_remaining
            /\ error' = error]_vars

\* a FileInfo that has expired is stored, with no error shown
C18_Witness ==
    /\ fileInfo \in LookupFileInfos
    /\ fileInfo.time_remaining <= 0
    /\ error = ""
    /\ ~loading
    /\ requests = EmptyBag

====
